---- MODULE Spec2Model ----
(***************************************************************************)
(* GrBitmapTextureMaker (src/gpu/GrBitmapTextureMaker.cpp): resolution of  *)
(* a CPU bitmap into a GPU texture proxy, with unique-key caching, mip     *)
(* upgrade by base-level copy, and generation-ID invalidation.             *)
(*                                                                         *)
(* One pixel ref (the mutable pixel buffer) and one recording context (one *)
(* proxy provider) are modelled.  A maker is a short-lived object built on *)
(* a bitmap that views a sub-rectangle of the pixel ref; one maker is live *)
(* at a time, and constructing the next one ends the previous one.  Every  *)
(* call of refOriginalTextureProxy is one atomic step (the code is         *)
(* single-threaded and synchronous); the calls it made are recorded in     *)
(* lastCall.ops.  makeCopyKey is a step of its own, and didCacheCopy is    *)
(* the last part of the step in which the maker's caller caches a scaled   *)
(* copy of the proxy it was given; both are recorded in lastCopy.          *)
(***************************************************************************)
EXTENDS Integers, Sequences, FiniteSets, Bags, TLC

\* ------------------------------------------------------------------ bounds
MaxGen == 2          \* generation IDs 1..MaxGen (notifyPixelsChanged is capped)
MaxProxies == 3      \* texture proxies ever created in the context

\* ------------------------------------------------------------ value spaces
ColorTypes == {"kRGBA_8888", "kBGRA_8888"}
\* A bitmap is a view (pixelRefOrigin, width, height) into the pixel ref, with a
\* colour type and a volatility flag.  The pixel ref is 2 x 1 pixels.
Bitmap(origin, width, colorType, isVolatile) ==
    [origin |-> origin, width |-> width, height |-> 1,
     colorType |-> colorType, isVolatile |-> isVolatile]
\* The bitmaps makers are constructed on.
Bitmaps ==
    {Bitmap(<<0, 0>>, 2, "kBGRA_8888", FALSE),   \* the whole pixel ref
     Bitmap(<<0, 0>>, 2, "kRGBA_8888", FALSE),   \* the same view, other colour type
     Bitmap(<<0, 0>>, 2, "kBGRA_8888", TRUE)}    \* a volatile bitmap
\* Every view of the pixel ref a bitmap can be: the keys of all of them are
\* compared with the live maker's key.
AllBitmaps ==
    {b \in {Bitmap(<<x, 0>>, w, ct, v) :
                x \in {0, 1}, w \in {1, 2}, ct \in ColorTypes, v \in BOOLEAN} :
        b.origin[1] + b.width <= 2}
\* The capabilities of the context's GPU: it has no BGRA texture format, so a
\* BGRA bitmap takes the RGBA 8888 fallback and an RGBA bitmap uploads as it is.
CapsChoices == {{"kRGBA_8888"}}
\* GrTextureProducer::CopyParams: the filter (0 none, 1 bilerp) and the size of
\* a scaled copy.
CopyParams(filter, width, height) ==
    [fFilter |-> filter, fWidth |-> width, fHeight |-> height]
CopyParamsChoices == {CopyParams(0, 4, 1), CopyParams(1, 4, 1)}
\* The scaled copy the maker's caller caches.
CachedCopyParams == {CopyParams(1, 4, 1)}

InvalidKey == <<>>   \* a default-constructed GrUniqueKey: isValid() is false
NoProxy == 0         \* nullptr
NoBitmap == [origin |-> <<0, 0>>, width |-> 0, height |-> 0,
             colorType |-> "kRGBA_8888", isVolatile |-> FALSE]
NoMaker == [made |-> FALSE, fBitmap |-> NoBitmap, colorType |-> "kRGBA_8888",
            fOriginalKey |-> InvalidKey, cached |-> FALSE, ctorGen |-> 0,
            uploaded |-> FALSE]
NoCall == [made |-> FALSE, willBeMipped |-> FALSE, onlyIfFast |-> "kAny",
           found |-> NoProxy, result |-> NoProxy, ops |-> <<>>,
           hadListener |-> FALSE]
NoCopy == [fn |-> "none", copyParams |-> CopyParams(0, 0, 0),
           in |-> InvalidKey, copyKey |-> InvalidKey]

VARIABLES
    genID,       \* SkPixelRef generation ID of the pixel ref
    caps,        \* colour types with a valid non-renderable default backend format
    maker,       \* the live GrBitmapTextureMaker
    proxies,     \* the context's texture proxies, by creation order
    listeners,   \* the gen-ID change listeners on the pixel ref: a bag of the
                 \* unique keys they invalidate
    uploads,     \* per key: successful createProxyFromBitmap calls since the last
                 \* generation change (history)
    steals,      \* per key: removeUniqueKeyFromProxy calls since the last
                 \* generation change (history)
    lastCall,    \* the last refOriginalTextureProxy call and what it did (history)
    lastCopy     \* the last makeCopyKey or didCacheCopy call (history)

vars == <<genID, caps, maker, proxies, listeners, uploads, steals, lastCall, lastCopy>>

\* ------------------------------------------------- collaborators (not in src)
SkIRectMakeXYWH(x, y, w, h) ==
    [fLeft |-> x, fTop |-> y, fRight |-> x + w, fBottom |-> y + h]

\* SkGr: the key holds the image ID and the four edges of the subset.
GrMakeKeyFromImageID(imageID, subset) ==
    <<imageID, subset.fLeft, subset.fTop, subset.fRight, subset.fBottom>>

AllKeys ==
    {GrMakeKeyFromImageID(g, SkIRectMakeXYWH(b.origin[1], b.origin[2], b.width, b.height)) :
        g \in 1..MaxGen, b \in Bitmaps}

\* GrCaps::getDefaultBackendFormat(ct, GrRenderable::kNo).isValid()
FormatIsValid(cp, ct) == ct \in cp

ProxyIds(ps) == 1..Len(ps)

\* GrProxyProvider::findOrCreateProxyByUniqueKey: the proxy holding the key, or null.
findOrCreateProxyByUniqueKey(ps, key) ==
    IF \E p \in ProxyIds(ps) : ps[p].uniqueKey = key
    THEN CHOOSE p \in ProxyIds(ps) : ps[p].uniqueKey = key
    ELSE NoProxy

\* GrProxyProvider::createProxyFromBitmap, when it succeeds: a new unkeyed proxy.
createProxyFromBitmap(ps, gen, mipMapped) ==
    Append(ps, [mipMapped |-> mipMapped, uniqueKey |-> InvalidKey,
                pixelsGen |-> gen])

assignUniqueKeyToProxy(ps, key, p) == [ps EXCEPT ![p].uniqueKey = key]

removeUniqueKeyFromProxy(ps, p) == [ps EXCEPT ![p].uniqueKey = InvalidKey]

\* GrCopyBaseMipMapToTextureProxy, when it succeeds: a new unkeyed mipped proxy
\* whose base level is a copy of proxy p.
GrCopyBaseMipMapToTextureProxy(ps, p) ==
    Append(ps, [mipMapped |-> TRUE, uniqueKey |-> InvalidKey,
                pixelsGen |-> ps[p].pixelsGen])

\* SkGr MakeCopyKeyFromOrigKey: the original key's data followed by the filter
\* and the size of the copy.
MakeCopyKeyFromOrigKey(origKey, copyParams) ==
    origKey \o <<copyParams.fFilter, copyParams.fWidth, copyParams.fHeight>>

CopyKeys == {MakeCopyKeyFromOrigKey(k, cp) : k \in AllKeys, cp \in CopyParamsChoices}

\* GrInstallBitmapUniqueKeyInvalidator that adds a listener on every call.
GrInstallBitmapUniqueKeyInvalidatorAppends(ls, key) == ls (+) SetToBag({key})

\* GrInstallBitmapUniqueKeyInvalidator: re-registering a key is idempotent.
GrInstallBitmapUniqueKeyInvalidator(ls, key) ==
    IF BagIn(key, ls) THEN ls ELSE ls (+) SetToBag({key})

\* The listeners fire: the store drops the entry of every registered key.
InvalidateKeys(ps, ls) ==
    [p \in ProxyIds(ps) |->
        IF BagIn(ps[p].uniqueKey, ls) THEN [ps[p] EXCEPT !.uniqueKey = InvalidKey] ELSE ps[p]]

Op(fn, arg, ok) == [fn |-> fn, arg |-> arg, ok |-> ok]
Called(ops, fn) == \E i \in 1..Len(ops) : ops[i].fn = fn
Succeeded(ops, fn) == \E i \in 1..Len(ops) : ops[i].fn = fn /\ ops[i].ok

\* ----------------------------------------------------- GrBitmapTextureMaker
\* get_image_info without the fallback: the bitmap's colour type, supported or not.
get_image_infoNoFallback(cp, bitmap) == bitmap.colorType

\* get_image_info: the colour type the maker uploads with.
get_image_info(cp, bitmap) ==
    IF ~FormatIsValid(cp, bitmap.colorType) THEN "kRGBA_8888" ELSE bitmap.colorType

\* The constructor's key without the isVolatile test.
MakeOriginalKeyIgnoreVolatile(bitmap, cached, gen) ==
    IF cached
    THEN GrMakeKeyFromImageID(gen,
             SkIRectMakeXYWH(bitmap.origin[1], bitmap.origin[2], bitmap.width, bitmap.height))
    ELSE InvalidKey

\* The constructor's key made from the origin alone: the subset's size is lost.
MakeOriginalKeyNoSize(bitmap, cached, gen) ==
    IF ~bitmap.isVolatile /\ cached
    THEN GrMakeKeyFromImageID(gen,
             SkIRectMakeXYWH(bitmap.origin[1], bitmap.origin[2], 0, 0))
    ELSE InvalidKey

\* The constructor's key: left invalid for a volatile bitmap or Cached::kNo.
MakeOriginalKey(bitmap, cached, gen) ==
    IF ~bitmap.isVolatile /\ cached
    THEN GrMakeKeyFromImageID(gen,
             SkIRectMakeXYWH(bitmap.origin[1], bitmap.origin[2], bitmap.width, bitmap.height))
    ELSE InvalidKey

\* GrBitmapTextureMaker::GrBitmapTextureMaker.  cached, ctorGen and uploaded are
\* history fields: the Cached argument, the generation ID the constructor read
\* (it calls getGenerationID only when it makes a key; 0 otherwise), and whether
\* this maker has created a proxy.
NewMaker(cp, bitmap, cached, gen) ==
    [made |-> TRUE, fBitmap |-> bitmap, colorType |-> get_image_info(cp, bitmap),
     fOriginalKey |-> MakeOriginalKey(bitmap, cached, gen),
     cached |-> cached,
     ctorGen |-> IF ~bitmap.isVolatile /\ cached THEN gen ELSE 0,
     uploaded |-> FALSE]

\* The keyed lookup left out: every call takes the miss branch.
KeyedLookupSkipped(mk, ps) == NoProxy

\* The keyed lookup: the proxy found under fOriginalKey, null without a key.
KeyedLookup(mk, ps) ==
    IF mk.fOriginalKey # InvalidKey
    THEN findOrCreateProxyByUniqueKey(ps, mk.fOriginalKey)
    ELSE NoProxy

\* The hit test asking for the exact mip status: a mipped proxy is no hit for a
\* call that wants no mips.
SatisfiesExactMips(ps, p, willBeMipped) ==
    p # NoProxy /\ (ps[p].mipMapped <=> willBeMipped)

\* The hit test without its !willBeMipped disjunct.
SatisfiesOnlyIfMipped(ps, p, willBeMipped) ==
    p # NoProxy /\ ps[p].mipMapped

\* proxy && (!willBeMipped || GrMipMapped::kYes == proxy->mipMapped())
Satisfies(ps, p, willBeMipped) ==
    p # NoProxy /\ (~willBeMipped \/ ps[p].mipMapped)

\* this->colorType() != SkColorTypeToGrColorType(fBitmap.info().colorType())
NeedsCopy8888(mk) == mk.colorType # mk.fBitmap.colorType

\* KeyFreshProxy that keys the fresh proxy only when it returns it: a fresh
\* proxy without the mips asked for goes to the upgrade unkeyed.
KeyFreshProxyKeyedWhenReturned(mk, s, q, willBeMipped) ==
    LET valid == mk.fOriginalKey # InvalidKey
        done == ~willBeMipped \/ s.proxies[q].mipMapped
    IN  [proxies |-> IF done /\ valid
                     THEN assignUniqueKeyToProxy(s.proxies, mk.fOriginalKey, q)
                     ELSE s.proxies,
         listeners |-> IF done /\ valid
                       THEN GrInstallBitmapUniqueKeyInvalidator(s.listeners, mk.fOriginalKey)
                       ELSE s.listeners,
         ops |-> IF done /\ valid
                 THEN s.ops \o <<Op("assignUniqueKeyToProxy", q, TRUE),
                                 Op("GrInstallBitmapUniqueKeyInvalidator", q, TRUE)>>
                 ELSE s.ops,
         proxy |-> q, returned |-> done, result |-> IF done THEN q ELSE NoProxy]

\* KeyFreshProxy without the mip test: a fresh proxy is returned as it is.
KeyFreshProxyNoMipCheck(mk, s, q, willBeMipped) ==
    LET valid == mk.fOriginalKey # InvalidKey
    IN  [proxies |-> IF valid THEN assignUniqueKeyToProxy(s.proxies, mk.fOriginalKey, q)
                     ELSE s.proxies,
         listeners |-> IF valid
                       THEN GrInstallBitmapUniqueKeyInvalidator(s.listeners, mk.fOriginalKey)
                       ELSE s.listeners,
         ops |-> IF valid
                 THEN s.ops \o <<Op("assignUniqueKeyToProxy", q, TRUE),
                                 Op("GrInstallBitmapUniqueKeyInvalidator", q, TRUE)>>
                 ELSE s.ops,
         proxy |-> q, returned |-> TRUE, result |-> q]

\* A freshly created proxy q: the key is assigned; the invalidator is installed
\* and the proxy returned only when q already satisfies the mip request.
KeyFreshProxy(mk, s, q, willBeMipped) ==
    LET valid == mk.fOriginalKey # InvalidKey
        ps1 == IF valid THEN assignUniqueKeyToProxy(s.proxies, mk.fOriginalKey, q)
               ELSE s.proxies
        ops1 == IF valid THEN Append(s.ops, Op("assignUniqueKeyToProxy", q, TRUE))
                ELSE s.ops
        done == ~willBeMipped \/ ps1[q].mipMapped
    IN  [proxies |-> ps1,
         listeners |-> IF done /\ valid
                       THEN GrInstallBitmapUniqueKeyInvalidator(s.listeners, mk.fOriginalKey)
                       ELSE s.listeners,
         ops |-> IF done /\ valid
                 THEN Append(ops1, Op("GrInstallBitmapUniqueKeyInvalidator", q, TRUE))
                 ELSE ops1,
         proxy |-> q, returned |-> done, result |-> IF done THEN q ELSE NoProxy]

\* The read-back with its result unchecked: a failed read still uploads copy8888.
ReadBackUnchecked(mk, ops, readOK) ==
    IF NeedsCopy8888(mk)
    THEN [ok |-> TRUE, src |-> "copy8888",
          ops |-> Append(ops, Op("readPixels", "copy8888", readOK))]
    ELSE [ok |-> TRUE, src |-> "fBitmap", ops |-> ops]

\* The read-back of the fallback path: without a colour-type mismatch nothing is
\* read and fBitmap is uploaded; with one, copy8888 is allocated and read into,
\* and a failure of either ends the call.
ReadBack(mk, ops, readOK) ==
    IF NeedsCopy8888(mk)
    THEN [ok |-> readOK, src |-> "copy8888",
          ops |-> Append(ops, Op("readPixels", "copy8888", readOK))]
    ELSE [ok |-> TRUE, src |-> "fBitmap", ops |-> ops]

\* The miss branch.  create is what createProxyFromBitmap yields: "null", or a
\* proxy that is mipped ("kYes", only when mips were asked for) or not ("kNo").
CreateStage(mk, s, gen, willBeMipped, create, readOK) ==
    LET rb == ReadBack(mk, s.ops, readOK)
    IN  IF ~rb.ok
        THEN [proxies |-> s.proxies, listeners |-> s.listeners, ops |-> rb.ops,
              proxy |-> NoProxy, returned |-> TRUE, result |-> NoProxy]
        ELSE IF create = "null"
        THEN [proxies |-> s.proxies, listeners |-> s.listeners,
              ops |-> Append(rb.ops, Op("createProxyFromBitmap", rb.src, FALSE)),
              proxy |-> NoProxy, returned |-> FALSE, result |-> NoProxy]
        ELSE KeyFreshProxy(mk,
                 [proxies |-> createProxyFromBitmap(s.proxies, gen,
                                  willBeMipped /\ create = "kYes"),
                  listeners |-> s.listeners,
                  ops |-> Append(rb.ops, Op("createProxyFromBitmap", rb.src, TRUE))],
                 Len(s.proxies) + 1, willBeMipped)

\* StealKey without removeUniqueKeyFromProxy: the original proxy keeps the key.
StealKeyNoRemove(mk, s, proxy, mippedProxy) ==
    IF mk.fOriginalKey # InvalidKey
    THEN [proxies |-> assignUniqueKeyToProxy(s.proxies, mk.fOriginalKey, mippedProxy),
          listeners |-> GrInstallBitmapUniqueKeyInvalidator(s.listeners, mk.fOriginalKey),
          ops |-> s.ops \o <<Op("assignUniqueKeyToProxy", mippedProxy, TRUE),
                             Op("GrInstallBitmapUniqueKeyInvalidator", mippedProxy, TRUE)>>,
          result |-> mippedProxy]
    ELSE [proxies |-> s.proxies, listeners |-> s.listeners, ops |-> s.ops,
          result |-> mippedProxy]

\* StealKey without the assignment: the key is removed and given to no proxy.
StealKeyNoAssign(mk, s, proxy, mippedProxy) ==
    IF mk.fOriginalKey # InvalidKey
    THEN [proxies |-> removeUniqueKeyFromProxy(s.proxies, proxy),
          listeners |-> GrInstallBitmapUniqueKeyInvalidator(s.listeners, mk.fOriginalKey),
          ops |-> s.ops \o <<Op("removeUniqueKeyFromProxy", proxy, TRUE),
                             Op("GrInstallBitmapUniqueKeyInvalidator", mippedProxy, TRUE)>>,
          result |-> mippedProxy]
    ELSE [proxies |-> s.proxies, listeners |-> s.listeners, ops |-> s.ops,
          result |-> mippedProxy]

\* The mipped copy succeeded: the key is stolen from the original proxy.
StealKey(mk, s, proxy, mippedProxy) ==
    IF mk.fOriginalKey # InvalidKey
    THEN [proxies |-> assignUniqueKeyToProxy(
                          removeUniqueKeyFromProxy(s.proxies, proxy),
                          mk.fOriginalKey, mippedProxy),
          listeners |-> GrInstallBitmapUniqueKeyInvalidator(s.listeners, mk.fOriginalKey),
          ops |-> s.ops \o <<Op("SkASSERT", "proxy->getUniqueKey() == fOriginalKey",
                                s.proxies[proxy].uniqueKey = mk.fOriginalKey),
                             Op("removeUniqueKeyFromProxy", proxy, TRUE),
                             Op("assignUniqueKeyToProxy", mippedProxy, TRUE),
                             Op("GrInstallBitmapUniqueKeyInvalidator", mippedProxy, TRUE)>>,
          result |-> mippedProxy]
    ELSE [proxies |-> s.proxies, listeners |-> s.listeners, ops |-> s.ops,
          result |-> mippedProxy]

\* The two assertions at the head of the mip-upgrade branch, evaluated.
UpgradeAsserts(s, proxy, willBeMipped) ==
    <<Op("SkASSERT", "willBeMipped", willBeMipped),
      Op("SkASSERT", "GrMipMapped::kNo == proxy->mipMapped()", ~s.proxies[proxy].mipMapped)>>

\* MipUpgrade that takes the key off the original proxy before it tries the copy.
MipUpgradeRemovesFirst(mk, s, proxy, willBeMipped, copyOK) ==
    LET valid == mk.fOriginalKey # InvalidKey
        mippedProxy == Len(s.proxies) + 1
        ps0 == IF valid THEN removeUniqueKeyFromProxy(s.proxies, proxy) ELSE s.proxies
        ops0 == (s.ops \o UpgradeAsserts(s, proxy, willBeMipped))
                   \o (IF valid THEN <<Op("removeUniqueKeyFromProxy", proxy, TRUE)>>
                       ELSE <<>>)
    IN  IF copyOK
        THEN [proxies |-> IF valid
                          THEN assignUniqueKeyToProxy(
                                   GrCopyBaseMipMapToTextureProxy(ps0, proxy),
                                   mk.fOriginalKey, mippedProxy)
                          ELSE GrCopyBaseMipMapToTextureProxy(ps0, proxy),
              listeners |-> IF valid
                            THEN GrInstallBitmapUniqueKeyInvalidator(s.listeners,
                                                                     mk.fOriginalKey)
                            ELSE s.listeners,
              ops |-> Append(ops0, Op("GrCopyBaseMipMapToTextureProxy", proxy, TRUE))
                         \o (IF valid
                             THEN <<Op("assignUniqueKeyToProxy", mippedProxy, TRUE),
                                    Op("GrInstallBitmapUniqueKeyInvalidator", mippedProxy,
                                       TRUE)>>
                             ELSE <<>>),
              result |-> mippedProxy]
        ELSE [proxies |-> ps0, listeners |-> s.listeners,
              ops |-> Append(ops0, Op("GrCopyBaseMipMapToTextureProxy", proxy, FALSE)),
              result |-> proxy]

\* MipUpgrade that gives up on a failed copy: null instead of the proxy.
MipUpgradeNullOnFailure(mk, s, proxy, willBeMipped, copyOK) ==
    LET ops0 == s.ops \o UpgradeAsserts(s, proxy, willBeMipped)
    IN  IF copyOK
        THEN StealKey(mk,
                 [proxies |-> GrCopyBaseMipMapToTextureProxy(s.proxies, proxy),
                  listeners |-> s.listeners,
                  ops |-> Append(ops0, Op("GrCopyBaseMipMapToTextureProxy", proxy, TRUE))],
                 proxy, Len(s.proxies) + 1)
        ELSE [proxies |-> s.proxies, listeners |-> s.listeners,
              ops |-> Append(ops0, Op("GrCopyBaseMipMapToTextureProxy", proxy, FALSE)),
              result |-> NoProxy]

\* The mip upgrade of a non-mipped proxy; on a failed copy the proxy itself.
MipUpgrade(mk, s, proxy, willBeMipped, copyOK) ==
    LET ops0 == s.ops \o UpgradeAsserts(s, proxy, willBeMipped)
    IN  IF copyOK
        THEN StealKey(mk,
                 [proxies |-> GrCopyBaseMipMapToTextureProxy(s.proxies, proxy),
                  listeners |-> s.listeners,
                  ops |-> Append(ops0, Op("GrCopyBaseMipMapToTextureProxy", proxy, TRUE))],
                 proxy, Len(s.proxies) + 1)
        ELSE [proxies |-> s.proxies, listeners |-> s.listeners,
              ops |-> Append(ops0, Op("GrCopyBaseMipMapToTextureProxy", proxy, FALSE)),
              result |-> proxy]

\* The cheap check left out.
CheapOnlyIgnored(onlyIfFast) == FALSE

\* AllowedTexGenType::kCheap == onlyIfFast
CheapOnly(onlyIfFast) == onlyIfFast = "kCheap"

\* Everything after the cheap check and the lookup, for the proxy `found`.
ResolveFrom(mk, s, gen, found, willBeMipped, create, readOK, copyOK) ==
    IF mk.fOriginalKey # InvalidKey /\ Satisfies(s.proxies, found, willBeMipped)
    THEN [proxies |-> s.proxies, listeners |-> s.listeners, ops |-> s.ops,
          result |-> found]
    ELSE LET c == IF found = NoProxy
                  THEN CreateStage(mk, s, gen, willBeMipped, create, readOK)
                  ELSE [proxies |-> s.proxies, listeners |-> s.listeners, ops |-> s.ops,
                        proxy |-> found, returned |-> FALSE, result |-> NoProxy]
         IN  IF c.returned
             THEN [proxies |-> c.proxies, listeners |-> c.listeners, ops |-> c.ops,
                   result |-> c.result]
             ELSE IF c.proxy # NoProxy
             THEN MipUpgrade(mk, [proxies |-> c.proxies, listeners |-> c.listeners,
                                  ops |-> c.ops], c.proxy, willBeMipped, copyOK)
             ELSE [proxies |-> c.proxies, listeners |-> c.listeners, ops |-> c.ops,
                   result |-> NoProxy]

\* GrBitmapTextureMaker::refOriginalTextureProxy
refOriginalTextureProxy(mk, ps, ls, gen, willBeMipped, onlyIfFast, create, readOK, copyOK) ==
    IF CheapOnly(onlyIfFast)
    THEN [proxies |-> ps, listeners |-> ls, ops |-> <<>>, found |-> NoProxy,
          result |-> NoProxy]
    ELSE LET found == KeyedLookup(mk, ps)
             ops0 == IF mk.fOriginalKey # InvalidKey
                     THEN <<Op("findOrCreateProxyByUniqueKey", found, found # NoProxy)>>
                     ELSE <<>>
             r == ResolveFrom(mk, [proxies |-> ps, listeners |-> ls, ops |-> ops0],
                              gen, found, willBeMipped, create, readOK, copyOK)
         IN  [proxies |-> r.proxies, listeners |-> r.listeners, ops |-> r.ops,
              found |-> found, result |-> r.result]

\* makeCopyKey without the isValid test: a key is derived from an invalid key too.
makeCopyKeyUnguarded(mk, copyParams, copyKey) ==
    MakeCopyKeyFromOrigKey(mk.fOriginalKey, copyParams)

\* GrBitmapTextureMaker::makeCopyKey: the value of *copyKey after the call.
makeCopyKey(mk, copyParams, copyKey) ==
    IF mk.fOriginalKey # InvalidKey
    THEN MakeCopyKeyFromOrigKey(mk.fOriginalKey, copyParams)
    ELSE copyKey

\* GrBitmapTextureMaker::didCacheCopy: the listeners after the call.
didCacheCopy(mk, ls, copyKey) == GrInstallBitmapUniqueKeyInvalidator(ls, copyKey)

\* What the collaborators can answer during one call: create is what
\* createProxyFromBitmap yields (null, a non-mipped proxy, or, only when
\* GrMipMapped::kYes was asked for, a mipped one), readOK whether the read-back
\* into copy8888 succeeds, copyOK whether GrCopyBaseMipMapToTextureProxy does.
\* Answers of collaborators the call cannot reach are not enumerated: none on
\* a kCheap call or a hit, the copy alone for a proxy found without mips, and
\* on a miss the read-back only on the fallback path and the copy only for a
\* fresh non-mipped proxy.
Outcomes(mk, ps, willBeMipped, onlyIfFast) ==
    LET found == KeyedLookup(mk, ps)
    IN  IF \/ CheapOnly(onlyIfFast)
           \/ (mk.fOriginalKey # InvalidKey /\ Satisfies(ps, found, willBeMipped))
        THEN {[create |-> "null", readOK |-> TRUE, copyOK |-> TRUE]}
        ELSE IF found # NoProxy
        THEN {[create |-> "null", readOK |-> TRUE, copyOK |-> c] : c \in BOOLEAN}
        ELSE {o \in [create : IF willBeMipped THEN {"null", "kNo", "kYes"}
                                              ELSE {"null", "kNo"},
                      readOK : BOOLEAN, copyOK : BOOLEAN] :
                 /\ ~NeedsCopy8888(mk) => o.readOK
                 /\ ~(willBeMipped /\ o.create = "kNo") => o.copyOK}

\* ------------------------------------------------------------------ actions
Init ==
    /\ genID = 1
    /\ caps \in CapsChoices
    /\ maker = NoMaker
    /\ proxies = <<>>
    /\ listeners = EmptyBag
    /\ uploads = [k \in AllKeys |-> 0]
    /\ steals = [k \in AllKeys |-> 0]
    /\ lastCall = NoCall
    /\ lastCopy = NoCopy

\* A maker is constructed on a bitmap viewing the pixel ref.
Construct(bitmap, cached) ==
    /\ maker' = NewMaker(caps, bitmap, cached, genID)
    /\ lastCall' = NoCall
    /\ lastCopy' = NoCopy
    /\ UNCHANGED <<genID, caps, proxies, listeners, uploads, steals>>

\* One call of refOriginalTextureProxy on the live maker.
Resolve(willBeMipped, onlyIfFast, create, readOK, copyOK) ==
    /\ maker.made
    /\ LET mk == maker
           r == refOriginalTextureProxy(mk, proxies, listeners, genID, willBeMipped,
                                        onlyIfFast, create, readOK, copyOK)
       IN  /\ Len(r.proxies) <= MaxProxies
           /\ proxies' = r.proxies
           /\ listeners' = r.listeners
           /\ uploads' = IF mk.fOriginalKey # InvalidKey
                            /\ Succeeded(r.ops, "createProxyFromBitmap")
                         THEN [uploads EXCEPT ![mk.fOriginalKey] = @ + 1]
                         ELSE uploads
           /\ steals' = IF mk.fOriginalKey # InvalidKey
                           /\ Called(r.ops, "removeUniqueKeyFromProxy")
                        THEN [steals EXCEPT ![mk.fOriginalKey] = @ + 1]
                        ELSE steals
           /\ lastCall' = [made |-> TRUE, willBeMipped |-> willBeMipped,
                           onlyIfFast |-> onlyIfFast, found |-> r.found,
                           result |-> r.result, ops |-> r.ops,
                           hadListener |-> BagIn(mk.fOriginalKey, listeners)]
           /\ maker' = [maker EXCEPT !.uploaded =
                            @ \/ Succeeded(r.ops, "createProxyFromBitmap")]
    /\ lastCopy' = NoCopy
    /\ UNCHANGED <<genID, caps>>

\* One call of makeCopyKey on the live maker; copyKey is the caller's key as it
\* is passed in: a default-constructed one, or one an earlier call wrote.
MakeCopyKey(copyParams, copyKey) ==
    /\ maker.made
    /\ lastCopy' = [fn |-> "makeCopyKey", copyParams |-> copyParams, in |-> copyKey,
                    copyKey |-> makeCopyKey(maker, copyParams, copyKey)]
    /\ lastCall' = NoCall
    /\ UNCHANGED <<genID, caps, maker, proxies, listeners, uploads, steals>>

\* The maker's caller caches a scaled copy of the proxy the last call returned:
\* it has asked makeCopyKey for the key and found no proxy under it; it makes a
\* non-mipped copy of the proxy, assigns the copy key to it and calls
\* didCacheCopy.
CacheCopy(copyParams) ==
    /\ maker.made /\ lastCall.made /\ lastCall.result # NoProxy
    /\ Len(proxies) < MaxProxies
    /\ LET copyKey == makeCopyKey(maker, copyParams, InvalidKey)
           copy == Len(proxies) + 1
       IN  /\ copyKey # InvalidKey
           /\ findOrCreateProxyByUniqueKey(proxies, copyKey) = NoProxy
           /\ proxies' = assignUniqueKeyToProxy(
                             Append(proxies,
                                 [mipMapped |-> FALSE,
                                  uniqueKey |-> InvalidKey,
                                  pixelsGen |-> proxies[lastCall.result].pixelsGen]),
                             copyKey, copy)
           /\ listeners' = didCacheCopy(maker, listeners, copyKey)
           /\ lastCopy' = [fn |-> "didCacheCopy", copyParams |-> copyParams,
                           in |-> copyKey, copyKey |-> copyKey]
    /\ lastCall' = NoCall
    /\ UNCHANGED <<genID, caps, maker, uploads, steals>>

\* SkPixelRef::notifyPixelsChanged: the listeners fire and are dropped, and the
\* pixel ref takes a new generation ID.
NotifyPixelsChanged ==
    /\ genID < MaxGen
    /\ genID' = genID + 1
    /\ proxies' = InvalidateKeys(proxies, listeners)
    /\ listeners' = EmptyBag
    /\ uploads' = [k \in AllKeys |-> 0]
    /\ steals' = [k \in AllKeys |-> 0]
    /\ lastCall' = NoCall
    /\ lastCopy' = NoCopy
    /\ UNCHANGED <<caps, maker>>

Next ==
    \/ \E b \in Bitmaps, cached \in BOOLEAN : Construct(b, cached)
    \/ \E willBeMipped \in BOOLEAN, onlyIfFast \in {"kAny", "kCheap"} :
          \E o \in Outcomes(maker, proxies, willBeMipped, onlyIfFast) :
              Resolve(willBeMipped, onlyIfFast, o.create, o.readOK, o.copyOK)
    \/ \E cp \in CachedCopyParams : CacheCopy(cp)
    \/ NotifyPixelsChanged

Spec == Init /\ [][Next]_vars

\* makeCopyKey reads nothing but the maker's key and writes nothing but the
\* caller's key: its calls are explored with the constructor and the generation
\* changes, for every copy parameter and every incoming key.
NextKeys ==
    \/ \E b \in Bitmaps, cached \in BOOLEAN : Construct(b, cached)
    \/ \E cp \in CopyParamsChoices, k \in {InvalidKey} \cup CopyKeys : MakeCopyKey(cp, k)
    \/ NotifyPixelsChanged

SpecKeys == Init /\ [][NextKeys]_vars

\* ------------------------------------------------------------------- claims
KeyValid == maker.made /\ maker.fOriginalKey # InvalidKey
Holders(ps, key) == {p \in ProxyIds(ps) : ps[p].uniqueKey = key}
\* The last step was a refOriginalTextureProxy call under the full-creation policy.
FullCall == lastCall.made /\ lastCall.onlyIfFast = "kAny"
\* The proxies the last call asked GrCopyBaseMipMapToTextureProxy to copy, by outcome.
CopiedFrom(ok) ==
    {lastCall.ops[i].arg : i \in {j \in 1..Len(lastCall.ops) :
        /\ lastCall.ops[j].fn = "GrCopyBaseMipMapToTextureProxy"
        /\ lastCall.ops[j].ok = ok}}

\* C1: in every state between calls, no unique key is held by two proxies: each
\* valid key has at most one live proxy.
C1_SingleResourcePerKey ==
    \A p, q \in ProxyIds(proxies) :
        (proxies[p].uniqueKey # InvalidKey /\ proxies[p].uniqueKey = proxies[q].uniqueKey)
            => p = q

\* A call has just stolen the key: the original and the mipped proxy both live,
\* and the key has exactly one holder.
C1_Witness ==
    /\ FullCall /\ KeyValid
    /\ Called(lastCall.ops, "removeUniqueKeyFromProxy")
    /\ lastCall.found # NoProxy /\ lastCall.result # lastCall.found
    /\ Holders(proxies, maker.fOriginalKey) = {lastCall.result}

\* C2: after every call that returns a proxy while the maker holds a valid key,
\* an invalidator for that key is installed on the pixel ref.
C2_HookAfterKeyedResolve ==
    (FullCall /\ KeyValid /\ lastCall.result # NoProxy)
        => BagIn(maker.fOriginalKey, listeners)

\* C3: a call asking for mips that found a non-mipped proxy under the key and
\* whose copy succeeded returns a mipped proxy that now holds the key, and the
\* proxy it found no longer holds it.
C3_MipUpgradeMovesKey ==
    (/\ FullCall /\ lastCall.willBeMipped
     /\ lastCall.found # NoProxy
     /\ ~proxies[lastCall.found].mipMapped
     /\ CopiedFrom(TRUE) # {})
        => /\ lastCall.result # NoProxy
           /\ lastCall.result # lastCall.found
           /\ proxies[lastCall.result].mipMapped
           /\ proxies[lastCall.result].uniqueKey = maker.fOriginalKey
           /\ proxies[lastCall.found].uniqueKey # maker.fOriginalKey

\* The upgrade of a proxy found by lookup has just succeeded.
C3_Witness ==
    /\ FullCall /\ KeyValid /\ lastCall.willBeMipped
    /\ lastCall.found # NoProxy
    /\ ~proxies[lastCall.found].mipMapped
    /\ CopiedFrom(TRUE) = {lastCall.found}
    /\ proxies[lastCall.result].mipMapped

\* C4: when the mipped copy of a proxy fails, the call returns that same
\* non-mipped proxy, and with a valid key that proxy still holds the key.
C4_UpgradeFailureDegrades ==
    \A old \in CopiedFrom(FALSE) :
        /\ lastCall.willBeMipped
        /\ lastCall.result = old
        /\ ~proxies[old].mipMapped
        /\ KeyValid => Holders(proxies, maker.fOriginalKey) = {old}

\* The copy of a proxy found under the key has just failed.
C4_Witness ==
    /\ FullCall /\ KeyValid
    /\ lastCall.found # NoProxy
    /\ CopiedFrom(FALSE) = {lastCall.found}

\* The store's key table: which proxy holds which key.
KeyTable(ps) == {<<ps[p].uniqueKey, p>> : p \in {q \in ProxyIds(ps) : ps[q].uniqueKey # InvalidKey}}
Failed(ops, fn) == \E i \in 1..Len(ops) : ops[i].fn = fn /\ ~ops[i].ok
KeyedFns == {"findOrCreateProxyByUniqueKey", "assignUniqueKeyToProxy",
             "removeUniqueKeyFromProxy", "GrInstallBitmapUniqueKeyInvalidator"}
\* The live maker was built on a volatile bitmap or with Cached::kNo.
Unkeyable == maker.made /\ (maker.fBitmap.isVolatile \/ ~maker.cached)

\* C5: a maker built on a volatile bitmap, or with Cached::kNo, has no key; its
\* calls make no keyed lookup, assign or remove no key and install no
\* invalidator, and leave the key table and the listeners as they were.
C5_VolatilityExclusion ==
    /\ [](Unkeyable => maker.fOriginalKey = InvalidKey)
    /\ []((lastCall.made /\ Unkeyable) =>
            \A i \in 1..Len(lastCall.ops) : lastCall.ops[i].fn \notin KeyedFns)
    /\ [][(lastCall'.made /\ Unkeyable) =>
            (KeyTable(proxies)' = KeyTable(proxies) /\ listeners' = listeners)]_vars

\* A volatile-bitmap maker built with Cached::kYes has created and upgraded a
\* proxy while the store holds a keyed proxy of an earlier maker.
C5_Witness ==
    /\ FullCall /\ maker.fBitmap.isVolatile /\ maker.cached
    /\ lastCall.willBeMipped
    /\ Succeeded(lastCall.ops, "createProxyFromBitmap")
    /\ CopiedFrom(TRUE) # {}
    /\ KeyTable(proxies) # {}

\* C6: a kCheap call returns null having called nothing, and leaves the proxies,
\* their keys and the listeners unchanged, whatever the store holds.
C6_CheapOnly ==
    /\ []((lastCall.made /\ lastCall.onlyIfFast = "kCheap") =>
            (lastCall.result = NoProxy /\ lastCall.ops = <<>>))
    /\ [][(lastCall'.made /\ lastCall'.onlyIfFast = "kCheap") =>
            (proxies' = proxies /\ listeners' = listeners)]_vars

\* A kCheap call asking for mips has returned null although a mipped proxy is
\* cached under the maker's key.
C6_Witness ==
    /\ lastCall.made /\ lastCall.onlyIfFast = "kCheap" /\ lastCall.willBeMipped
    /\ KeyValid
    /\ \E p \in Holders(proxies, maker.fOriginalKey) : proxies[p].mipMapped
    /\ lastCall.result = NoProxy

\* C7: when the lookup found nothing and the read-back or createProxyFromBitmap
\* fails, the call returns null, assigns no key and installs no invalidator:
\* the key table and the listeners are as before the call.
C7_FatalFailureLeavesNothing ==
    /\ []((FullCall /\ lastCall.found = NoProxy
            /\ (Failed(lastCall.ops, "readPixels")
                \/ Failed(lastCall.ops, "createProxyFromBitmap"))) =>
            /\ lastCall.result = NoProxy
            /\ ~Called(lastCall.ops, "assignUniqueKeyToProxy")
            /\ ~Called(lastCall.ops, "GrInstallBitmapUniqueKeyInvalidator"))
    /\ [][(lastCall'.made /\ lastCall'.found = NoProxy
            /\ (Failed(lastCall'.ops, "readPixels")
                \/ Failed(lastCall'.ops, "createProxyFromBitmap"))) =>
            (KeyTable(proxies)' = KeyTable(proxies) /\ listeners' = listeners)]_vars

\* A keyed maker on the fallback path has read the pixels back and then failed
\* to create the proxy, while the store holds a keyed proxy.
C7_Witness ==
    /\ FullCall /\ KeyValid /\ lastCall.found = NoProxy
    /\ Succeeded(lastCall.ops, "readPixels")
    /\ Failed(lastCall.ops, "createProxyFromBitmap")
    /\ lastCall.result = NoProxy
    /\ KeyTable(proxies) # {}

\* C8: a call whose lookup finds a proxy that satisfies the mip request returns
\* that proxy having called nothing but the lookup, and changes no proxy, key
\* or listener.
C8_CacheHitDoesNoWork ==
    /\ []((FullCall /\ lastCall.found # NoProxy
            /\ (~lastCall.willBeMipped \/ proxies[lastCall.found].mipMapped)) =>
            /\ lastCall.result = lastCall.found
            /\ Len(lastCall.ops) = 1
            /\ lastCall.ops[1].fn = "findOrCreateProxyByUniqueKey")
    /\ [][(lastCall'.made /\ lastCall'.found # NoProxy
            /\ (~lastCall'.willBeMipped \/ proxies[lastCall'.found].mipMapped)) =>
            (proxies' = proxies /\ listeners' = listeners)]_vars

\* A call without mips has hit a non-mipped proxy on the fallback path.
C8_Witness ==
    /\ FullCall /\ KeyValid /\ NeedsCopy8888(maker)
    /\ ~lastCall.willBeMipped
    /\ lastCall.found # NoProxy
    /\ ~proxies[lastCall.found].mipMapped
    /\ lastCall.result = lastCall.found

\* The identity of a bitmap's pixels: the view it takes of the pixel ref.
View(bitmap) == <<bitmap.origin, bitmap.width, bitmap.height>>

\* C9: the live maker's key equals the key of a maker built on any non-volatile
\* bitmap with Cached::kYes exactly when generation ID and view agree, whatever
\* the colour types (so whether or not either takes the fallback); and a call
\* with a valid key finds the proxy that holds that key, whichever maker keyed it.
C9_KeyDeterminism ==
    /\ [](KeyValid =>
            \A b \in AllBitmaps, g \in 1..MaxGen :
                ~b.isVolatile =>
                    ((MakeOriginalKey(b, TRUE, g) = maker.fOriginalKey)
                        <=> (g = maker.ctorGen /\ View(b) = View(maker.fBitmap))))
    /\ [][(lastCall'.made /\ lastCall'.onlyIfFast = "kAny" /\ KeyValid) =>
            \A p \in Holders(proxies, maker.fOriginalKey) : lastCall'.found = p]_vars

\* A maker that has created no proxy itself has found one under its key: the
\* proxy was keyed through an earlier maker on the same pixels.
C9_Witness ==
    /\ FullCall /\ KeyValid /\ ~maker.uploaded
    /\ lastCall.found # NoProxy
    /\ lastCall.result = lastCall.found
    /\ proxies[lastCall.found].uniqueKey = maker.fOriginalKey

\* C10: between generation changes createProxyFromBitmap succeeds at most once
\* per key; a call asking for mips that finds a non-mipped proxy goes to the
\* copy and calls neither createProxyFromBitmap nor the read-back.
C10_NoRedundantUpload ==
    /\ \A k \in AllKeys : uploads[k] <= 1
    /\ (FullCall /\ lastCall.willBeMipped /\ lastCall.found # NoProxy
          /\ ~proxies[lastCall.found].mipMapped) =>
            /\ Called(lastCall.ops, "GrCopyBaseMipMapToTextureProxy")
            /\ ~Called(lastCall.ops, "createProxyFromBitmap")
            /\ ~Called(lastCall.ops, "readPixels")

\* On the fallback path, a call asking for mips has found the non-mipped proxy
\* uploaded once under the key and gone to the copy.
C10_Witness ==
    /\ FullCall /\ KeyValid /\ NeedsCopy8888(maker)
    /\ lastCall.willBeMipped /\ lastCall.found # NoProxy
    /\ ~proxies[lastCall.found].mipMapped
    /\ uploads[maker.fOriginalKey] = 1
    /\ Called(lastCall.ops, "GrCopyBaseMipMapToTextureProxy")

\* C11: makeCopyKey writes the key derived from fOriginalKey and the copy
\* parameters, and from nothing else, exactly when fOriginalKey is valid; when
\* it is not, the caller's key is left as it was passed in.  So a caller's empty
\* key comes back valid exactly when the maker's key is valid.
C11_CopyKeyIffCacheKey ==
    lastCopy.fn = "makeCopyKey" =>
        /\ KeyValid =>
              lastCopy.copyKey = MakeCopyKeyFromOrigKey(maker.fOriginalKey, lastCopy.copyParams)
        /\ ~KeyValid => lastCopy.copyKey = lastCopy.in
        /\ lastCopy.in = InvalidKey => (lastCopy.copyKey # InvalidKey <=> KeyValid)

\* A maker whose key is of an earlier generation has written its copy key over
\* a key the caller passed in.
C11_Witness ==
    /\ lastCopy.fn = "makeCopyKey" /\ KeyValid
    /\ maker.ctorGen # genID
    /\ lastCopy.in # InvalidKey /\ lastCopy.in # lastCopy.copyKey
    /\ lastCopy.copyKey # InvalidKey

\* C12: after didCacheCopy with a copy key, a listener for that key is on the
\* pixel ref; and a generation change that finds a listener for a copy key
\* leaves neither that copy key nor the original key it was derived from on
\* any proxy.
C12_CopyInvalidated ==
    /\ [](lastCopy.fn = "didCacheCopy" => BagIn(lastCopy.copyKey, listeners))
    /\ [][genID' # genID =>
            \A k \in AllKeys, cp \in CachedCopyParams :
                BagIn(MakeCopyKeyFromOrigKey(k, cp), listeners) =>
                    /\ Holders(proxies, MakeCopyKeyFromOrigKey(k, cp))' = {}
                    /\ Holders(proxies, k)' = {}]_vars

OpsAt(ops, fn) == {i \in 1..Len(ops) : ops[i].fn = fn}

\* C14: in every call, removeUniqueKeyFromProxy comes only after a successful
\* GrCopyBaseMipMapToTextureProxy of the same proxy and is followed at once by
\* the assignment of the key to the mipped copy, which the call returns and
\* which is then the key's one holder; once a copy has failed, no key is
\* removed in the call and none is assigned after the failure, and the key is
\* still on the proxy that was to be copied.
C14_MigrationOrder ==
    LET ops == lastCall.ops
    IN  /\ \A i \in OpsAt(ops, "removeUniqueKeyFromProxy") :
              /\ \E j \in 1..(i - 1) :
                    /\ ops[j].fn = "GrCopyBaseMipMapToTextureProxy"
                    /\ ops[j].ok /\ ops[j].arg = ops[i].arg
              /\ i < Len(ops)
              /\ ops[i + 1].fn = "assignUniqueKeyToProxy"
              /\ ops[i + 1].arg = lastCall.result
              /\ lastCall.result # ops[i].arg
              /\ proxies[lastCall.result].mipMapped
              /\ Holders(proxies, maker.fOriginalKey) = {lastCall.result}
        /\ \A j \in OpsAt(ops, "GrCopyBaseMipMapToTextureProxy") :
              ~ops[j].ok =>
                  /\ OpsAt(ops, "removeUniqueKeyFromProxy") = {}
                  /\ \A i \in OpsAt(ops, "assignUniqueKeyToProxy") : i < j
                  /\ KeyValid => Holders(proxies, maker.fOriginalKey) = {ops[j].arg}

\* One call has created a non-mipped proxy and keyed it, and its copy has then
\* failed: the key was assigned before the failure and is on the fresh proxy.
C14_Witness ==
    /\ FullCall /\ KeyValid /\ lastCall.found = NoProxy
    /\ Succeeded(lastCall.ops, "createProxyFromBitmap")
    /\ Failed(lastCall.ops, "GrCopyBaseMipMapToTextureProxy")
    /\ Cardinality(OpsAt(lastCall.ops, "assignUniqueKeyToProxy")) = 1
    /\ proxies[lastCall.result].uniqueKey = maker.fOriginalKey

\* C14 as it is worded: as C14_MigrationOrder, but a call whose copy fails
\* executes no assignUniqueKeyToProxy at all.
C14_NoKeyOpOnFailure ==
    LET ops == lastCall.ops
    IN  /\ \A i \in OpsAt(ops, "removeUniqueKeyFromProxy") :
              /\ \E j \in 1..(i - 1) :
                    /\ ops[j].fn = "GrCopyBaseMipMapToTextureProxy"
                    /\ ops[j].ok /\ ops[j].arg = ops[i].arg
              /\ i < Len(ops)
              /\ ops[i + 1].fn = "assignUniqueKeyToProxy"
              /\ ops[i + 1].arg = lastCall.result
              /\ proxies[lastCall.result].mipMapped
        /\ Failed(ops, "GrCopyBaseMipMapToTextureProxy") =>
              /\ ~Called(ops, "removeUniqueKeyFromProxy")
              /\ ~Called(ops, "assignUniqueKeyToProxy")

\* The live maker's key is on a mipped proxy.
KeyOnMipped == KeyValid /\ \E p \in Holders(proxies, maker.fOriginalKey) : proxies[p].mipMapped

\* C15: while the maker's key is on a mipped proxy, every call under the
\* full-creation policy, with or without mips, returns that proxy; every call,
\* kCheap ones too, leaves the key table as it was; and between generation
\* changes a key is removed from a proxy at most once.
C15_MippedKeySticks ==
    /\ [][(lastCall'.made /\ KeyOnMipped) =>
            /\ lastCall'.onlyIfFast = "kAny" =>
                  \A p \in Holders(proxies, maker.fOriginalKey) : lastCall'.result = p
            /\ KeyTable(proxies)' = KeyTable(proxies)]_vars
    /\ [](\A k \in AllKeys : steals[k] <= 1)

\* C15 as it is worded: every call made while the key is on a mipped proxy
\* returns that proxy, whatever its policy.
C15_EveryCallReturnsMipped ==
    /\ [][(lastCall'.made /\ KeyOnMipped) =>
            /\ \A p \in Holders(proxies, maker.fOriginalKey) : lastCall'.result = p
            /\ KeyTable(proxies)' = KeyTable(proxies)]_vars
    /\ [](\A k \in AllKeys : steals[k] <= 1)

\* After the key was moved to a mipped copy, a later call that wants no mips
\* has returned the mipped proxy.
C15_Witness ==
    /\ FullCall /\ KeyValid /\ ~lastCall.willBeMipped
    /\ steals[maker.fOriginalKey] = 1
    /\ lastCall.found # NoProxy /\ proxies[lastCall.found].mipMapped
    /\ lastCall.result = lastCall.found
    /\ lastCall.ops = <<Op("findOrCreateProxyByUniqueKey", lastCall.found, TRUE)>>

\* C16: a call under the full-creation policy returns null only when the lookup
\* found nothing and the read-back or createProxyFromBitmap failed; when the
\* lookup found a proxy or a proxy was created it returns a proxy; and the
\* proxy returned to a call that wanted mips is non-mipped only when
\* GrCopyBaseMipMapToTextureProxy failed in that call.
C16_EmptyResult ==
    FullCall =>
        /\ lastCall.result = NoProxy =>
              /\ lastCall.found = NoProxy
              /\ \/ Failed(lastCall.ops, "readPixels")
                 \/ Failed(lastCall.ops, "createProxyFromBitmap")
        /\ (lastCall.found # NoProxy \/ Succeeded(lastCall.ops, "createProxyFromBitmap"))
              => lastCall.result # NoProxy
        /\ (/\ lastCall.result # NoProxy /\ lastCall.willBeMipped
            /\ ~proxies[lastCall.result].mipMapped)
              => Failed(lastCall.ops, "GrCopyBaseMipMapToTextureProxy")

\* A maker without a key was asked for mips, created a non-mipped proxy, failed
\* to copy it and returned it.
C16_Witness ==
    /\ FullCall /\ ~KeyValid /\ lastCall.willBeMipped
    /\ Succeeded(lastCall.ops, "createProxyFromBitmap")
    /\ Failed(lastCall.ops, "GrCopyBaseMipMapToTextureProxy")
    /\ lastCall.result # NoProxy /\ ~proxies[lastCall.result].mipMapped

\* C17: every assertion a call evaluates holds; a call that reaches the copy
\* has evaluated the two at the head of the upgrade branch (mips were asked
\* for, the proxy is non-mipped), and a call that removes the key has evaluated
\* the third (the proxy holds exactly fOriginalKey), whether the proxy was
\* found by the lookup or created in the same call.
C17_UpgradeAssertsHold ==
    LET ops == lastCall.ops
        asserts == OpsAt(ops, "SkASSERT")
    IN  /\ \A i \in asserts : ops[i].ok
        /\ \A j \in OpsAt(ops, "GrCopyBaseMipMapToTextureProxy") :
              /\ {i \in asserts : i < j} = {j - 2, j - 1}
              /\ lastCall.willBeMipped
              /\ ~proxies[ops[j].arg].mipMapped
        /\ \A j \in OpsAt(ops, "removeUniqueKeyFromProxy") :
              /\ ops[j - 1].fn = "SkASSERT"
              /\ ops[j - 1].arg = "proxy->getUniqueKey() == fOriginalKey"
              /\ ops[j - 1].ok
              /\ ops[j - 2].fn = "GrCopyBaseMipMapToTextureProxy"
              /\ ops[j - 2].arg = ops[j].arg /\ ops[j - 2].ok
        /\ (KeyValid /\ CopiedFrom(TRUE) # {}) => Called(ops, "removeUniqueKeyFromProxy")

\* One call has created a non-mipped proxy, keyed it, copied it and, the fresh
\* proxy holding the key, moved the key to the copy.
C17_Witness ==
    /\ FullCall /\ KeyValid /\ lastCall.found = NoProxy
    /\ Succeeded(lastCall.ops, "createProxyFromBitmap")
    /\ CopiedFrom(TRUE) # {}
    /\ Cardinality(OpsAt(lastCall.ops, "SkASSERT")) = 3
    /\ Called(lastCall.ops, "removeUniqueKeyFromProxy")

\* The generation ID a maker's key was made from: the image ID that
\* GrMakeKeyFromImageID puts first.
KeyGen(key) == key[1]

\* C18: every proxy that holds a maker's key holds pixels of the generation
\* the key was made from.
C18_KeyMatchesPixels ==
    \A p \in ProxyIds(proxies) :
        proxies[p].uniqueKey \in AllKeys =>
            proxies[p].pixelsGen = KeyGen(proxies[p].uniqueKey)

\* The context has no format for the live maker's bitmap: the fallback is chosen.
FallbackChosen == ~FormatIsValid(caps, maker.fBitmap.colorType)

====
